---- MODULE Spec2Model ----
(***************************************************************************)
(* The process table of kern/proc/proc.c: process objects, the pid table   *)
(* (pid_procs / pid_status / pid_waitcode / pid_available / pid_next) and  *)
(* the fork / _exit / waitpid system calls built on it.                    *)
(*                                                                         *)
(* Every action is one critical section of the table lock (pid_lock) or    *)
(* one lock-free stretch of a system call, so every state of the model is  *)
(* a state with the table lock free.                                       *)
(***************************************************************************)
EXTENDS Integers, Sequences, FiniteSets, TLC

(* ------------------------------ bounds -------------------------------- *)
\* The table holds the slots 0 .. PID_MAX-1 (scaled down from the kernel's).
PID_MAX == 4
\* Process objects that are ever allocated, kproc included.
MaxProcs == 4
\* Threads that are inside sys_waitpid at the same time.
MaxWaiters == 1

(* ------------------------- program constants -------------------------- *)
PID_MIN == 2
READY == 0
RUNNING == 1
ZOMBIE == 2
ORPHAN == 3
\* Any int that is none of the four status values (an uninitialised cell).
GARBAGE == ORPHAN + 1
\* (int) NULL, and the null process pointer.
NULL == 0
\* pid_next when the table is full.
FULL == -1
\* The pid proc_create gives every process object, the kernel's pid.
KPID == 1
\* The process object of the kernel (object 1 of Procs).
kproc == 1

Procs == 1 .. MaxProcs
\* The cells bootstrap initialises: the kernel slot and [PID_MIN, PID_MAX).
Slots == {KPID} \cup (PID_MIN .. (PID_MAX - 1))
UserSlots == PID_MIN .. (PID_MAX - 1)
\* The exit codes processes pass to _exit.
Codes == {0, 7}
StatusValues == {READY, RUNNING, ZOMBIE, ORPHAN, GARBAGE}

VARIABLES
  pid_status,     \* pidtable->pid_status[]
  pid_procs,      \* pidtable->pid_procs[]
  pid_waitcode,   \* pidtable->pid_waitcode[]
  pid_available,  \* pidtable->pid_available
  pid_next,       \* pidtable->pid_next
  p_pid,          \* proc->pid of every process object
  children,       \* proc->children of every process object
  destroyed,      \* how often proc_destroy was applied to the object
  nprocs,         \* process objects allocated so far
  pc,             \* where the thread of each process is
  wpid,           \* sys_waitpid's argument pid, while the call runs
  new_proc,       \* sys_fork's local new_proc, while the call runs
  output,         \* the value pidtable_add returned to the running fork
  halted,         \* "no", or why the kernel stopped
  orphaned,       \* history: the processes whose parent exited while their
                  \* slot was RUNNING
  ev              \* history: the step taken last (the table operation,
                  \* and for add / exit / a waitpid return its pid, value
                  \* and the status it found)

vars == << pid_status, pid_procs, pid_waitcode, pid_available, pid_next,
           p_pid, children, destroyed, nprocs, pc, wpid, new_proc, output,
           halted, orphaned, ev >>

\* The kernel memory the table operations read and write, as one value.
Mem ==
  [ status |-> pid_status, procs |-> pid_procs, waitcode |-> pid_waitcode,
    available |-> pid_available, next |-> pid_next, pid |-> p_pid,
    children |-> children, destroyed |-> destroyed, halted |-> halted ]

Event(op, who, pid, val, pre) ==
  [ op |-> op, who |-> who, pid |-> pid, val |-> val, pre |-> pre ]

(* ------------------------ halting the kernel -------------------------- *)
Panic(m, msg) == [m EXCEPT !.halted = msg]

\* A load or store through a dangling pointer or outside an array may trap.
Fault(m) == [m EXCEPT !.halted = "fault"]

\* Touching a process object that proc_destroy has freed.
UseAfterFree(m, p) == IF m.destroyed[p] > 0 THEN {Fault(m)} ELSE {}

\* Indexing a table array below its first element.
OutOfBounds(m, i) == IF i < 0 THEN {Fault(m)} ELSE {}

(* --------------------------- table cells ------------------------------ *)
\* The values a load of pid_status[i] can yield.  Cell 0 is never
\* initialised and cell -1 lies outside the array.
ReadStatus(m, i) == IF i \in Slots THEN {m.status[i]} ELSE StatusValues

\* Stores outside the initialised cells are not tracked.
SetSlot(m, i, proc, st, wc) ==
  IF i \in Slots
    THEN [m EXCEPT !.procs[i] = proc, !.status[i] = st, !.waitcode[i] = wc]
    ELSE m

SetStatus(m, i, st) ==
  IF i \in Slots THEN [m EXCEPT !.status[i] = st] ELSE m

SetStatusCode(m, i, st, wc) ==
  IF i \in Slots THEN [m EXCEPT !.status[i] = st, !.waitcode[i] = wc] ELSE m

\* The values a load of p->pid can yield.
ReadPid(m, p) ==
  IF m.destroyed[p] = 0 THEN {m.pid[p]}
  ELSE {m.pid[p]} \cup (0 .. (PID_MAX - 1))

(* ---------------------------- proc_destroy ---------------------------- *)
ProcDestroy(m, p) ==
  IF p = kproc THEN {Panic(m, "assertion failed")}
  ELSE IF m.destroyed[p] > 0
    THEN {Fault(m), [m EXCEPT !.destroyed[p] = 2]}
    ELSE {[m EXCEPT !.destroyed[p] = 1, !.children[p] = << >>]}

(* ---------------------- pidtable_update_children ---------------------- *)
\* One iteration of the loop, for a child whose pid was read as cp.
ChildStatusStep(m, child, cp, s) ==
  IF s = RUNNING THEN {SetStatus(m, cp, ORPHAN)}
  ELSE IF s = ZOMBIE
    THEN ProcDestroy(
           SetSlot([m EXCEPT !.available = @ + 1], cp, NULL, READY, NULL),
           child)
  ELSE {Panic(m, "Tried to modify a child that did not exist.")}

ChildStep(m, child) ==
  UseAfterFree(m, child) \cup
  UNION { OutOfBounds(m, cp) \cup
          UNION { ChildStatusStep(m, child, cp, s) : s \in ReadStatus(m, cp) }
          : cp \in ReadPid(m, child) }

RECURSIVE UpdateChildrenFrom(_, _, _)
UpdateChildrenFrom(m, proc, i) ==
  IF i = 0 \/ m.halted # "no" \/ i > Len(m.children[proc]) THEN {m}
  ELSE UNION { UpdateChildrenFrom(m2, proc, i - 1)
               : m2 \in ChildStep(m, m.children[proc][i]) }

pidtable_update_children(m, proc) ==
  UseAfterFree(m, proc) \cup
  UpdateChildrenFrom(m, proc, Len(m.children[proc]))

(* ---------------------------- pidtable_exit --------------------------- *)
OwnStatusStep(m, proc, pp, s, waitcode) ==
  IF s = RUNNING THEN {SetStatusCode(m, pp, ZOMBIE, waitcode)}
  ELSE IF s = ORPHAN
    THEN ProcDestroy(
           SetSlot([m EXCEPT !.available = @ + 1], pp, NULL, READY, NULL),
           proc)
  ELSE {Panic(m, "Tried to remove a bad process.")}

OwnSlotStep(m, proc, waitcode) ==
  IF m.halted # "no" THEN {m}
  ELSE UNION { OutOfBounds(m, pp) \cup
               UNION { OwnStatusStep(m, proc, pp, s, waitcode)
                       : s \in ReadStatus(m, pp) }
               : pp \in ReadPid(m, proc) }

pidtable_exit(m, proc, waitcode) ==
  UNION { OwnSlotStep(m1, proc, waitcode)
          : m1 \in pidtable_update_children(m, proc) }

(* ---------------------------- pidtable_add ---------------------------- *)
\* The hint after the scan "for (i = next; i < PID_MAX; i++)": the first
\* READY cell from i on, or keep when there is none.
RECURSIVE ScanFrom(_, _, _)
ScanFrom(m, i, keep) ==
  IF i >= PID_MAX THEN {keep}
  ELSE IF i \in Slots
    THEN (IF m.status[i] = READY THEN {i} ELSE ScanFrom(m, i + 1, keep))
    ELSE {i} \cup ScanFrom(m, i + 1, keep)

AdvanceHint(m, next) ==
  IF m.available > 0
    THEN { [m EXCEPT !.next = n] : n \in ScanFrom(m, next, m.next) }
    ELSE { [m EXCEPT !.next = FULL] }

\* The table part of pidtable_add: the set of (memory, output) pairs.
TakeSlot(m, proc) ==
  IF m.available > 0
    THEN LET next == m.next
             m1 == SetSlot([m EXCEPT !.available = @ - 1],
                           next, proc, RUNNING, NULL)
         IN { [m |-> m2, output |-> next]
              : m2 \in OutOfBounds(m, next) \cup AdvanceHint(m1, next) }
    ELSE { [m |-> Panic(m, "PID table full!"), output |-> -1] }

\* (mutant) the caller registered in the slot instead of the new process.
pidtable_add_caller(m, cur, proc) ==
  { [m |-> f, output |-> -1] : f \in UseAfterFree(m, cur) } \cup
  TakeSlot([m EXCEPT !.children[cur] = Append(@, proc)], cur)

pidtable_add(m, cur, proc) ==
  { [m |-> f, output |-> -1] : f \in UseAfterFree(m, cur) } \cup
  TakeSlot([m EXCEPT !.children[cur] = Append(@, proc)], proc)

(* ------------------------------- state -------------------------------- *)
\* proc_bootstrap followed by pidtable_bootstrap.
Init ==
  /\ pid_status = [i \in Slots |-> IF i = KPID THEN RUNNING ELSE READY]
  /\ pid_procs = [i \in Slots |-> IF i = KPID THEN kproc ELSE NULL]
  /\ pid_waitcode = [i \in Slots |-> NULL]
  /\ pid_available = PID_MAX - 1
  /\ pid_next = PID_MIN
  /\ p_pid = [p \in Procs |-> IF p = kproc THEN KPID ELSE 0]
  /\ children = [p \in Procs |-> << >>]
  /\ destroyed = [p \in Procs |-> 0]
  /\ nprocs = 1
  /\ pc = [p \in Procs |-> IF p = kproc THEN "run" ELSE "none"]
  /\ wpid = [p \in Procs |-> 0]
  /\ new_proc = [p \in Procs |-> NULL]
  /\ output = [p \in Procs |-> 0]
  /\ halted = "no"
  /\ orphaned = {}
  /\ ev = Event("boot", kproc, 0, 0, 0)

\* Write a memory value back to the variables.
Store(m) ==
  /\ pid_status' = m.status
  /\ pid_procs' = m.procs
  /\ pid_waitcode' = m.waitcode
  /\ pid_available' = m.available
  /\ pid_next' = m.next
  /\ p_pid' = m.pid
  /\ children' = m.children
  /\ destroyed' = m.destroyed
  /\ halted' = m.halted

TableUnchanged ==
  UNCHANGED << pid_status, pid_procs, pid_waitcode, pid_available, pid_next,
               p_pid, children, destroyed, halted >>

\* The status of the slot pidtable_add is about to take, -1 outside the table.
HintStatus == IF pid_next \in Slots THEN pid_status[pid_next] ELSE -1

(* ------------------------------ sys_fork ------------------------------ *)
\* proc_create, then pidtable_add up to its return (sys_fork and
\* proc_create_runprogram alike; cur is the calling process).
ForkAdd(cur) ==
  /\ halted = "no"
  /\ pc[cur] = "run"
  /\ nprocs < MaxProcs
  /\ LET n == nprocs + 1
         m0 == [Mem EXCEPT !.pid[n] = KPID, !.children[n] = << >>]
     IN \E r \in pidtable_add(m0, cur, n) :
          /\ Store(r.m)
          /\ nprocs' = n
          /\ new_proc' = [new_proc EXCEPT ![cur] = n]
          /\ output' = [output EXCEPT ![cur] = r.output]
          /\ pc' = [pc EXCEPT ![cur] = "fork_ret"]
          /\ ev' = Event("add", 0, r.output, 0, HintStatus)
          /\ UNCHANGED << wpid, orphaned >>

\* What sys_fork does to the kernel memory when thread_fork has failed: it
\* returns the error.
ThreadForkFailed(m, cur, n, out) == m

\* new_proc->pid = <the pid returned>; then, in sys_fork, the ENPROC return
\* or ft_copy, the trap frame, thread_fork and the return; in
\* proc_create_runprogram the panic or the return to the caller, which
\* starts the thread.
ForkReturn(cur) ==
  /\ halted = "no"
  /\ pc[cur] = "fork_ret"
  /\ LET n == new_proc[cur]
         out == output[cur]
         m0 == [Mem EXCEPT !.pid[n] = out]
     IN \/ /\ out = -1
           /\ Store(IF cur = kproc
                      THEN Panic(m0, "Could not add new process to pid table")
                      ELSE m0)
           /\ pc' = [pc EXCEPT ![cur] = "run", ![n] = "nothread"]
           /\ ev' = Event(IF cur = kproc THEN "fork_ret" ELSE "fork_err",
                          0, 0, 0, 0)
        \/ /\ out # -1
           /\ Store(m0)
           /\ pc' = [pc EXCEPT ![cur] = "run", ![n] = "run"]
           /\ ev' = Event("fork_ret", 0, 0, 0, 0)
        \/ /\ out # -1
           /\ cur # kproc
           /\ Store(ThreadForkFailed(m0, cur, n, out))
           /\ pc' = [pc EXCEPT ![cur] = "run", ![n] = "nothread"]
           /\ ev' = Event("fork_err", 0, 0, 0, 0)
  /\ new_proc' = [new_proc EXCEPT ![cur] = NULL]
  /\ output' = [output EXCEPT ![cur] = 0]
  /\ UNCHANGED << nprocs, wpid, orphaned >>

(* ----------------------- fork failing early --------------------------- *)
\* What proc_create allocates: the object, its name, file table and
\* children list.
ProcParts == {"proc", "p_name", "proc_ft", "children"}

\* The steps of sys_fork before pidtable_add that can fail.
FailSteps == {"proc_create", "new_tf", "as_copy"}

\* The allocations of the call that are live when the step fails
\* (proc_create releases its own on failure and returns NULL).
Allocated(step) ==
  CASE step = "proc_create" -> {}
    [] step = "new_tf" -> ProcParts
    [] step = "as_copy" -> ProcParts \cup {"new_tf"}

\* What the failure branch of the step frees before it returns.
Released(step) ==
  CASE step = "proc_create" -> {}
    [] step = "new_tf" -> {"proc"}
    [] step = "as_copy" -> {}

\* sys_fork returns an error before pidtable_add was called; ev.val is the
\* number of allocations of the call that are still live.  Unless
\* proc_create itself failed, the call has made a process object, which no
\* slot, no children list and no thread refers to.
ForkFail(cur, step) ==
  /\ halted = "no"
  /\ pc[cur] = "run"
  /\ cur # kproc
  /\ nprocs < MaxProcs
  /\ ev' = Event("fork_fail", 0, 0,
                 Cardinality(Allocated(step) \ Released(step)), 0)
  /\ LET n == nprocs + 1
     IN IF Allocated(step) = {}
          THEN /\ TableUnchanged
               /\ UNCHANGED << nprocs, pc >>
          ELSE /\ Store([Mem EXCEPT !.pid[n] = KPID])
               /\ nprocs' = n
               /\ pc' = [pc EXCEPT ![n] = "nothread"]
  /\ UNCHANGED << wpid, new_proc, output, orphaned >>

(* ------------------------------ sys__exit ----------------------------- *)
\* (mutant) the broadcast left out.
BroadcastNone(f) == f

\* cv_broadcast: every thread blocked in cv_wait becomes runnable.
Broadcast(f) == [p \in Procs |-> IF f[p] = "cv_wait" THEN "cv_woken" ELSE f[p]]

OwnStatus(p) == IF p_pid[p] \in Slots THEN pid_status[p_pid[p]] ELSE -1

\* The children of p whose slot is RUNNING.
RunningChildren(p) ==
  { children[p][i] : i \in { j \in 1 .. Len(children[p]) :
                               OwnStatus(children[p][j]) = RUNNING } }

Exit(cur, waitcode) ==
  /\ halted = "no"
  /\ pc[cur] = "run"
  /\ cur # kproc
  /\ \E m \in pidtable_exit(Mem, cur, waitcode) :
       /\ Store(m)
       /\ pc' = IF m.halted = "no"
                  THEN [Broadcast(pc) EXCEPT ![cur] = "dead"]
                  ELSE pc
       /\ ev' = Event("exit", cur, p_pid[cur], waitcode, OwnStatus(cur))
       /\ orphaned' = orphaned \cup RunningChildren(cur)
  /\ UNCHANGED << nprocs, wpid, new_proc, output >>

(* ----------------------------- sys_waitpid ---------------------------- *)
\* (mutant) the loop left as soon as the target is no longer RUNNING.
WaitDoneNotRunning(status) == status # RUNNING

\* The loop test of sys_waitpid: leave the loop with this status?
WaitDone(status) == status = ZOMBIE

\* (mutant) sys_waitpid reaping the slot it waited for.
WaitReturnReaps(m, pid) ==
  SetSlot([m EXCEPT !.available = @ + 1], pid, NULL, READY, NULL)

\* What sys_waitpid does to the kernel memory once the loop is left:
\* it releases the lock and stores the status in *retval0.
WaitReturn(m, pid) == m

\* From the lock_acquire to the first cv_wait, or to the return.
WaitStart(cur, pid) ==
  /\ halted = "no"
  /\ pc[cur] = "run"
  /\ Cardinality({ p \in Procs : pc[p] \in {"cv_wait", "cv_woken"} })
       < MaxWaiters
  /\ LET status == pid_status[pid]
     IN IF WaitDone(status)
          THEN /\ Store(WaitReturn(Mem, pid))
               /\ ev' = Event("wait_ret", 0, pid, status, 0)
               /\ UNCHANGED << pc, wpid >>
          ELSE /\ TableUnchanged
               /\ pc' = [pc EXCEPT ![cur] = "cv_wait"]
               /\ wpid' = [wpid EXCEPT ![cur] = pid]
               /\ ev' = Event("wait_block", 0, 0, 0, 0)
  /\ UNCHANGED << nprocs, new_proc, output, orphaned >>

\* From a wake in cv_wait to the next cv_wait, or to the return.
WaitRetest(cur) ==
  /\ halted = "no"
  /\ pc[cur] = "cv_woken"
  /\ LET pid == wpid[cur]
         status == pid_status[pid]
     IN IF WaitDone(status)
          THEN /\ Store(WaitReturn(Mem, pid))
               /\ pc' = [pc EXCEPT ![cur] = "run"]
               /\ wpid' = [wpid EXCEPT ![cur] = 0]
               /\ ev' = Event("wait_ret", 0, pid, status, 1)
          ELSE /\ TableUnchanged
               /\ pc' = [pc EXCEPT ![cur] = "cv_wait"]
               /\ ev' = Event("wait_block", 0, 0, 0, 0)
               /\ UNCHANGED wpid
  /\ UNCHANGED << nprocs, new_proc, output, orphaned >>

(* ---------------------------- specification --------------------------- *)
Next ==
  \/ \E cur \in Procs : ForkAdd(cur)
  \/ \E cur \in Procs : \E step \in FailSteps : ForkFail(cur, step)
  \/ \E cur \in Procs : ForkReturn(cur)
  \/ \E cur \in Procs : \E waitcode \in Codes : Exit(cur, waitcode)
  \/ \E cur \in Procs : \E pid \in Slots : WaitStart(cur, pid)
  \/ \E cur \in Procs : WaitRetest(cur)

Spec == Init /\ [][Next]_vars

\* Fair scheduling of threads and fair lock acquisition: a thread that is
\* runnable inside a system call gets to take its next step.  Whether a
\* process calls fork, exit or waitpid at all is up to its program.
Fairness ==
  \A cur \in Procs : WF_vars(WaitRetest(cur)) /\ WF_vars(ForkReturn(cur))

FairSpec == Spec /\ Fairness

(* ------------------------------- claims ------------------------------- *)
Live == {RUNNING, ZOMBIE, ORPHAN}

\* A step of process cur's pidtable_exit, seen from its first state.
ExitStepOf(cur) ==
  /\ halted = "no"
  /\ pc[cur] = "run"
  /\ ev'.op = "exit"
  /\ ev'.who = cur

\* C1: a waitpid(P) that returns delivers the waitcode that pidtable_exit
\* recorded in P's slot, the code P passed to exit.
C1_WaitDeliversExitCode ==
  ev.op = "wait_ret" => ev.val = pid_waitcode[ev.pid]

\* C2: waitpid(P) returns only having seen P's slot ZOMBIE; it never returns
\* while the slot is READY, RUNNING or ORPHAN, and a thread woken from the
\* condition variable tests the status again: it returns only if that test
\* finds ZOMBIE and goes back to waiting otherwise; a thread still blocked
\* on the condition variable never returns directly.
C2_ReturnState ==
  ev.op = "wait_ret" => /\ pid_status[ev.pid] = ZOMBIE
                        /\ ev.val = ZOMBIE

C2_WakeStep ==
  \A p \in Procs :
    /\ pc[p] = "cv_wait" => pc'[p] \in {"cv_wait", "cv_woken"}
    /\ (pc[p] = "cv_woken" /\ pc'[p] = "run") =>
         (pid_status[wpid[p]] = ZOMBIE /\ pid_status'[wpid[p]] = ZOMBIE)
    /\ (pc[p] = "cv_woken" /\ pc'[p] = "cv_wait") =>
         pid_status[wpid[p]] # ZOMBIE

C2_WaitReturnsOnlyOnZombie == [](C2_ReturnState) /\ [][C2_WakeStep]_vars

\* C2 witness: a waitpid returned after at least one wake and re-test.
C2_Witness == ev.op = "wait_ret" /\ ev.pre = 1 /\ pid_status[ev.pid] = ZOMBIE

\* A thread is inside sys_waitpid, past its first test of the status.
InWait(b) == pc[b] \in {"cv_wait", "cv_woken"}

\* C3 as stated, in the interleavings it names (the exit of P's parent
\* before P's own): once A has called exit for pid P, a thread B that is in
\* waitpid(P) eventually returns.
C3_WaiterAlwaysReturns ==
  \A a \in Procs : \A b \in Procs :
    (pc[a] = "dead" /\ a \in orphaned /\ InWait(b) /\ wpid[b] = p_pid[a])
      ~> ~InWait(b)

\* C3 amended: a thread in waitpid(P) does not stay blocked while P's slot
\* stays ZOMBIE: it eventually returns, unless the slot stops being ZOMBIE
\* or the kernel halts.
C3_WaiterReturnsWhileZombie ==
  \A b \in Procs :
    (InWait(b) /\ pid_status[wpid[b]] = ZOMBIE)
      ~> (~InWait(b) \/ pid_status[wpid[b]] # ZOMBIE \/ halted # "no")

\* C3 witness: a waiter that was blocked is woken with its target ZOMBIE,
\* the target's process having called exit.
C3_Witness ==
  \E a \in Procs : \E b \in Procs :
    /\ pc[a] = "dead" /\ pc[b] = "cv_woken" /\ wpid[b] = p_pid[a]
    /\ pid_status[wpid[b]] = ZOMBIE

\* C4: pid_available equals the number of READY slots in [PID_MIN, PID_MAX).
C4_AvailableCountsReady ==
  pid_available = Cardinality({ i \in UserSlots : pid_status[i] = READY })

\* C5: every pid pidtable_add returns is the index of a slot that was READY
\* immediately before the call, so no two processes that are registered and
\* not destroyed hold the same pid.
C5_AddTakesReadySlot ==
  /\ (ev.op = "add" /\ halted = "no") => ev.pre = READY
  /\ \A p, q \in Procs :
       (p # q /\ pc[p] \in {"run", "cv_wait", "cv_woken", "fork_ret"}
              /\ pc[q] \in {"run", "cv_wait", "cv_woken", "fork_ret"}
              /\ destroyed[p] = 0 /\ destroyed[q] = 0)
         => p_pid[p] # p_pid[q]

\* C6: a slot's status changes only along READY->RUNNING, RUNNING->ZOMBIE,
\* RUNNING->ORPHAN, ZOMBIE->READY and ORPHAN->READY.
Edges ==
  { <<READY, RUNNING>>, <<RUNNING, ZOMBIE>>, <<RUNNING, ORPHAN>>,
    <<ZOMBIE, READY>>, <<ORPHAN, READY>> }

C6_EdgeStep ==
  \A i \in Slots :
    pid_status'[i] # pid_status[i] => <<pid_status[i], pid_status'[i]>> \in Edges

C6_OnlyFiveEdges == [][C6_EdgeStep]_vars

\* C7: a RUNNING, ZOMBIE or ORPHAN slot references a process whose pid field
\* is the slot's index; a READY slot references no process.
C7_SlotReferencesItsProcess ==
  \A i \in Slots :
    /\ pid_status[i] \in Live =>
         (pid_procs[i] # NULL /\ p_pid[pid_procs[i]] = i)
    /\ pid_status[i] = READY => pid_procs[i] = NULL

\* C8: when a parent exits while an exited child's slot is ZOMBIE, the
\* parent's exit makes that slot READY with its process reference cleared
\* and destroys the child's process object.
C8_ReapStep ==
  \A cur \in Procs :
    ExitStepOf(cur) =>
      \A i \in 1 .. Len(children[cur]) :
        LET c == children[cur][i]
        IN (pc[c] = "dead" /\ destroyed[c] = 0 /\ OwnStatus(c) = ZOMBIE) =>
             /\ pid_status'[p_pid[c]] = READY
             /\ pid_procs'[p_pid[c]] = NULL
             /\ destroyed'[c] = 1

C8_ParentExitReapsZombie == [][C8_ReapStep]_vars

\* C9: a parent's exit turns the slot of each child that is RUNNING into
\* ORPHAN and leaves the child's object alone; the later exit of such a
\* child finds its slot ORPHAN and makes it READY, with the process
\* reference and the waitcode cleared and the object destroyed, and records
\* the exit code in no slot.
C9_OrphanStep ==
  \A cur \in Procs :
    ExitStepOf(cur) =>
      /\ \A c \in RunningChildren(cur) :
           destroyed[c] = 0 =>
             (pid_status'[p_pid[c]] = ORPHAN /\ destroyed'[c] = 0)
      /\ cur \in orphaned =>
           /\ ev'.pre = ORPHAN
           /\ pid_status'[p_pid[cur]] = READY
           /\ pid_procs'[p_pid[cur]] = NULL
           /\ pid_waitcode'[p_pid[cur]] = NULL
           /\ destroyed'[cur] = 1
           /\ \A i \in Slots :
                pid_waitcode'[i] # pid_waitcode[i] => pid_waitcode'[i] = NULL

C9_OrphanReclaimed == [][C9_OrphanStep]_vars

\* C10: no step of sys_waitpid (blocking, or returning) changes a slot's
\* status, process reference or waitcode, the available counter, the hint
\* or a children list, and in the state a waitpid(P) returns to, P's slot is
\* ZOMBIE and references a process object that is not destroyed.
C10_WaitStep ==
  ev'.op \in {"wait_ret", "wait_block"} =>
    UNCHANGED << pid_status, pid_procs, pid_waitcode, pid_available,
                 pid_next, children, p_pid, destroyed >>

C10_ReturnState ==
  ev.op = "wait_ret" =>
    /\ pid_status[ev.pid] = ZOMBIE
    /\ pid_procs[ev.pid] # NULL
    /\ destroyed[pid_procs[ev.pid]] = 0

C11_DestroyStep ==
  \A p \in Procs :
    destroyed'[p] # destroyed[p] =>
      /\ destroyed[p] = 0
      /\ destroyed'[p] = 1
      /\ ev'.op = "exit"
      /\ \/ p = ev'.who
         \/ /\ \E i \in 1 .. Len(children[ev'.who]) : children[ev'.who][i] = p
            /\ OwnStatus(p) = ZOMBIE
      /\ p_pid[p] \in Slots => pid_status'[p_pid[p]] = READY

C11_DestroyedOnceWhenReclaimed == [][C11_DestroyStep]_vars

\* C12: a pidtable_add called while no slot of [PID_MIN, PID_MAX) is READY
\* halts the system with "PID table full", returns no pid and changes the
\* status and the process reference of no slot.
C12_FullStep ==
  (ev'.op = "add" /\ \A i \in UserSlots : pid_status[i] # READY) =>
    /\ halted' = "PID table full!"
    /\ ev'.pid = -1
    /\ UNCHANGED << pid_status, pid_procs >>

C12_ExhaustionHaltsUnchanged == [][C12_FullStep]_vars

\* C13: the kernel never calling exit, in every reachable state slot 1 is
\* RUNNING and references the kernel process, every pid pidtable_add has
\* returned lies in [PID_MIN, PID_MAX), and proc_destroy has not been applied
\* to the kernel process.
C13_KernelSlotReserved ==
  /\ pid_status[KPID] = RUNNING
  /\ pid_procs[KPID] = kproc
  /\ (ev.op = "add" /\ halted = "no") => ev.pid \in UserSlots
  /\ destroyed[kproc] = 0
  /\ halted # "assertion failed"

\* C14: when sys_fork fails before pidtable_add has registered the child,
\* every object the call allocated has been released on return, and the
\* table and the caller's children list are as they were.
C14_FailStep ==
  ev'.op = "fork_fail" =>
    /\ ev'.val = 0
    /\ UNCHANGED << pid_status, pid_procs, pid_waitcode, pid_available,
                    pid_next, children >>

C14_EarlyFailureLeaksNothing == [][C14_FailStep]_vars

\* C15: in every reachable state no two slots whose status is RUNNING,
\* ZOMBIE or ORPHAN reference the same process object.
C15_LiveSlotsReferenceDistinctProcesses ==
  \A i \in Slots : \A j \in Slots :
    (i # j /\ pid_status[i] \in Live /\ pid_status[j] \in Live)
      => pid_procs[i] # pid_procs[j]

\* C15 witness: a slot that was reclaimed (its process destroyed) has been
\* taken again, and both user slots reference live, different processes.
C15_Witness ==
  /\ \E p \in Procs : destroyed[p] = 1
  /\ \A i \in UserSlots : pid_status[i] \in Live /\ pid_procs[i] # NULL
  /\ \E i \in UserSlots : \E j \in UserSlots : pid_procs[i] # pid_procs[j]
  /\ ev.op = "add" /\ ev.pre = READY

\* C16: in every state with the table lock free, pid_next is the index of a
\* READY slot of [PID_MIN, PID_MAX), or it is the full sentinel -1 and no
\* slot is READY; so the slot every pidtable_add takes was READY.
C16_HintValid ==
  /\ \/ pid_next \in UserSlots /\ pid_status[pid_next] = READY
     \/ pid_next = FULL /\ \A i \in UserSlots : pid_status[i] # READY
  /\ ev.op = "add" => ev.pre = READY

\* C17: every call of exit by a registered process completes: it releases
\* the table lock and terminates the calling thread, without halting the
\* system, without waiting on the condition variable and without returning
\* to its caller.
C17_ExitStep ==
  \A cur \in Procs :
    (ExitStepOf(cur) /\ p_pid[cur] \in UserSlots /\ destroyed[cur] = 0) =>
      /\ halted' = "no"
      /\ pc'[cur] = "dead"

C17_ExitCompletes == [][C17_ExitStep]_vars

\* C18: in no execution in which pidtable_add never found the table full
\* does an exiting process find its own slot other than RUNNING or ORPHAN,
\* or update_children find a child's slot other than RUNNING or ZOMBIE:
\* neither consistency panic is ever reached.
C18_NoConsistencyPanic ==
  /\ halted # "Tried to remove a bad process."
  /\ halted # "Tried to modify a child that did not exist."

\* C19: whenever update_children walks the children list of an exiting
\* process, every child entry it reads refers to a process object that has
\* not been destroyed.  (The walk reads the last entry first, and reads
\* every entry when it does not halt.)
C19_WalkStep ==
  \A cur \in Procs :
    (ExitStepOf(cur) /\ destroyed[cur] = 0) =>
      LET n == Len(children[cur])
      IN /\ n > 0 => destroyed[children[cur][n]] = 0
         /\ halted' = "no" =>
              \A i \in 1 .. n : destroyed[children[cur][i]] = 0

C19_WalkReadsLiveChildren == [][C19_WalkStep]_vars

\* C20: a sys_fork that returns an error (pidtable_add yielding no pid, or
\* thread_fork failing after the registration) leaves the table as it was
\* before the call: the child it created is referenced by no slot and is in
\* no children list, so no slot stays RUNNING for a child without a thread.
C20_FailedForkStep ==
  \A cur \in Procs :
    (pc[cur] = "fork_ret" /\ pc'[cur] = "run" /\ ev'.op = "fork_err") =>
      LET n == new_proc[cur]
      IN /\ \A i \in Slots : pid_procs'[i] # n
         /\ \A j \in 1 .. Len(children'[cur]) : children'[cur][j] # n
         /\ \A i \in Slots :
              (pid_status'[i] = RUNNING /\ pid_procs'[i] # NULL)
                => pc'[pid_procs'[i]] # "nothread"

C20_FailedForkLeavesTable == [][C20_FailedForkStep]_vars

====
